---- MODULE Spec2Model ----
(***************************************************************************)
(* Model of platforms/macos/src/event.rs: the EventGenerator that turns    *)
(* tree-change callbacks into QueuedEvent descriptors, and QueuedEvents    *)
(* that later raises them against the shared Context.                      *)
(*                                                                         *)
(* Two specifications share the operators that model the code:             *)
(*   Spec       the generate / into_result / raise lifecycle, repeated     *)
(*              over diff passes that share one Context;                   *)
(*   SpecReact  one reaction applied to a generator, with the node views   *)
(*              drawn from the whole attribute domain.                     *)
(***************************************************************************)
EXTENDS Integers, Sequences, FiniteSets, TLC

\* ------------------------------------------------------------------ bounds
\* Number of reactions the diff engine invokes in one pass (Spec).
MaxCalls == 2

\* ------------------------------------------------------- node views (input)
\* Option<T> is a sequence of length at most one.
None == <<>>
Some(x) == <<x>>

Ids == {1, 2}
\* Node::name() is Option<String>; Some("") is a present, empty name.
Names == {None, Some(""), Some("a"), Some("b")}
Lives == {"Off", "Polite", "Assertive"}
Titles == {"t1", "t2"}
Values == {"v1", "v2"}
Selections == {None, Some(1)}

\* A node view as the handler reads it (Node and DetachedNode answer the same
\* queries).  included is the outcome of the inclusion filter on the view.
Nodes ==
  [id : Ids, included : BOOLEAN, name : Names, live : Lives, title : Titles,
   value : Values, supports_text_ranges : BOOLEAN, selection : Selections]

\* The node views the lifecycle specification draws from: a node is either a
\* named assertive live region or an unnamed node with live-region off, and
\* value and text selection are held fixed (SpecReact draws from all of
\* Nodes).
PassNodes ==
  {n \in Nodes : /\ \/ n.name = Some("a") /\ n.live = "Assertive"
                    \/ n.name = None /\ n.live = "Off"
                 /\ n.value = "v1"
                 /\ ~n.supports_text_ranges
                 /\ n.selection = None}

\* The previously focused nodes the lifecycle specification draws from.
PassOldFocus == {n \in PassNodes : n.name = None /\ n.live = "Off" /\ n.title = "t1"}

\* TreeState handed to node_removed: the ids still in the tree.
TreeStates == SUBSET Ids

filter(node) == IF node.included THEN "Include" ELSE "Exclude"
filter_detached(node) == IF node.included THEN "Include" ELSE "Exclude"

\* -------------------------------------------------------------- descriptors
NSAccessibilityPriorityHigh == "high"
NSAccessibilityPriorityMedium == "medium"
NSAccessibilityTitleChangedNotification == "TitleChanged"
NSAccessibilityValueChangedNotification == "ValueChanged"
NSAccessibilitySelectedTextChangedNotification == "SelectedTextChanged"
NSAccessibilityFocusedUIElementChangedNotification == "FocusedUIElementChanged"
NSAccessibilityUIElementDestroyedNotification == "UIElementDestroyed"
NSAccessibilityAnnouncementRequestedNotification == "AnnouncementRequested"

Generic(node_id, notification) ==
  [type |-> "Generic", node_id |-> node_id, notification |-> notification]
NodeDestroyed(node_id) == [type |-> "NodeDestroyed", node_id |-> node_id]
Announcement(text, priority) ==
  [type |-> "Announcement", text |-> text, priority |-> priority]

\* What a failed Option::unwrap leaves in place of a value: the call panics.
Panic == "panic: called Option::unwrap() on a None value"

\* Option::unwrap
unwrap(opt) == IF opt = None THEN Panic ELSE opt[1]

\* Variant: the priority test names the wrong live-region setting.
live_region_announcement_polite_high(node) ==
  Announcement(unwrap(node.name),
               IF node.live = "Polite" THEN NSAccessibilityPriorityHigh
                                       ELSE NSAccessibilityPriorityMedium)

live_region_announcement(node) ==
  Announcement(unwrap(node.name),
               IF node.live = "Assertive" THEN NSAccessibilityPriorityHigh
                                          ELSE NSAccessibilityPriorityMedium)

\* Variant: the event is inserted at the front of the queue.
push_front(events, event) == <<event>> \o events

\* Variant: the event replaces the queue instead of joining it.
push_replacing(events, event) == <<event>>

\* Vec::push
push(events, event) == Append(events, event)

\* ---------------------------------------------------------------- reactions
\* Variant: the live-region setting is not consulted.
node_added_ignores_live(events, node) ==
  IF filter(node) # "Include" THEN events
  ELSE IF node.name # None
       THEN push(events, live_region_announcement(node))
       ELSE events

\* Variant: the name is not tested before the announcement is built.
node_added_ignores_name(events, node) ==
  IF filter(node) # "Include" THEN events
  ELSE IF node.live # "Off"
       THEN push(events, live_region_announcement(node))
       ELSE events

\* Variant: the inclusion filter is not consulted.
node_added_unfiltered(events, node) ==
  IF node.name # None /\ node.live # "Off"
  THEN push(events, live_region_announcement(node))
  ELSE events

node_added(events, node) ==
  IF filter(node) # "Include" THEN events
  ELSE IF node.name # None /\ node.live # "Off"
       THEN push(events, live_region_announcement(node))
       ELSE events

\* Variant: an included node is never treated as newly exposed.
announcement_due_ignores_old_filter(old_node, new_node) ==
  /\ new_node.name # None
  /\ new_node.live # "Off"
  /\ \/ new_node.name # old_node.name
     \/ new_node.live # old_node.live

\* Variant: a named live region is announced on every update.
announcement_due_unconditional(old_node, new_node) ==
  /\ new_node.name # None
  /\ new_node.live # "Off"

\* The test of lines 193-197: a live-region announcement is due.
announcement_due(old_node, new_node) ==
  /\ new_node.name # None
  /\ new_node.live # "Off"
  /\ \/ new_node.name # old_node.name
     \/ new_node.live # old_node.live
     \/ filter_detached(old_node) # "Include"

\* Variant: the value comparison comes before the title comparison.
compare_views_value_first(events, old_node, new_node) ==
  LET node_id == new_node.id
      e1 == IF old_node.value # new_node.value
            THEN push(events, Generic(node_id, NSAccessibilityValueChangedNotification))
            ELSE events
      e2 == IF old_node.title # new_node.title
            THEN push(e1, Generic(node_id, NSAccessibilityTitleChangedNotification))
            ELSE e1
      e3 == IF /\ old_node.supports_text_ranges
               /\ new_node.supports_text_ranges
               /\ old_node.selection # new_node.selection
            THEN push(e2, Generic(node_id, NSAccessibilitySelectedTextChangedNotification))
            ELSE e2
  IN IF announcement_due(old_node, new_node)
     THEN push(e3, live_region_announcement(new_node))
     ELSE e3

\* Variant: only the new view is asked whether it supports text ranges.
compare_views_new_ranges_only(events, old_node, new_node) ==
  LET node_id == new_node.id
      e1 == IF old_node.title # new_node.title
            THEN push(events, Generic(node_id, NSAccessibilityTitleChangedNotification))
            ELSE events
      e2 == IF old_node.value # new_node.value
            THEN push(e1, Generic(node_id, NSAccessibilityValueChangedNotification))
            ELSE e1
      e3 == IF /\ new_node.supports_text_ranges
               /\ old_node.selection # new_node.selection
            THEN push(e2, Generic(node_id, NSAccessibilitySelectedTextChangedNotification))
            ELSE e2
  IN IF announcement_due(old_node, new_node)
     THEN push(e3, live_region_announcement(new_node))
     ELSE e3

\* The comparisons of lines 169-201, made once the new view is included.
compare_views(events, old_node, new_node) ==
  LET node_id == new_node.id
        e1 == IF old_node.title # new_node.title
              THEN push(events, Generic(node_id, NSAccessibilityTitleChangedNotification))
              ELSE events
        e2 == IF old_node.value # new_node.value
              THEN push(e1, Generic(node_id, NSAccessibilityValueChangedNotification))
              ELSE e1
        e3 == IF /\ old_node.supports_text_ranges
                 /\ new_node.supports_text_ranges
                 /\ old_node.selection # new_node.selection
              THEN push(e2, Generic(node_id, NSAccessibilitySelectedTextChangedNotification))
              ELSE e2
    IN IF announcement_due(old_node, new_node)
       THEN push(e3, live_region_announcement(new_node))
       ELSE e3

\* Variant: the filter is applied to the old view instead of the new one.
node_updated_filters_old(events, old_node, new_node) ==
  IF filter_detached(old_node) # "Include" THEN events
  ELSE compare_views(events, old_node, new_node)

node_updated(events, old_node, new_node) ==
  IF filter(new_node) # "Include" THEN events
  ELSE compare_views(events, old_node, new_node)

\* Variant: the inclusion filter is not consulted.
focus_moved_unfiltered(events, old_node, new_node) ==
  IF new_node # None
  THEN push(events, Generic(unwrap(new_node).id,
                            NSAccessibilityFocusedUIElementChangedNotification))
  ELSE events

\* old_node and new_node are Option<node view>.
focus_moved(events, old_node, new_node) ==
  IF new_node # None
  THEN IF filter(unwrap(new_node)) # "Include" THEN events
       ELSE push(events, Generic(unwrap(new_node).id,
                                 NSAccessibilityFocusedUIElementChangedNotification))
  ELSE events

\* Variant: a node the filter excludes is not reported.
node_removed_filtered(events, node, current_state) ==
  IF filter_detached(node) # "Include" THEN events
  ELSE push(events, NodeDestroyed(node.id))

node_removed(events, node, current_state) == push(events, NodeDestroyed(node.id))

\* -------------------------------------------------------------------- state
VARIABLES
  phase,    \* "gen": a generator exists; "ready": QueuedEvents exists;
            \* "raising": inside QueuedEvents::raise; "raised": consumed
  events,   \* EventGenerator.events
  queued,   \* QueuedEvents.events
  pos,      \* index of the next event the loop of QueuedEvents::raise takes
  handles,  \* Context: the node ids that have a platform node
  view,     \* Context.view: "none", "no_window" or "window"
  posted,   \* history: the notifications posted by the current raise
  log,      \* history: the reactions made on the generator, in call order,
            \* kept until its QueuedEvents is raised
  call      \* history (SpecReact): the reaction applied and its arguments

vars == <<phase, events, queued, pos, handles, view, posted, log, call>>

Views == {"none", "no_window", "window"}
NoCall == [kind |-> "none"]

\* ----------------------------------------------------------------- delivery
\* Context::get_or_create_platform_node: the cache afterwards.
get_or_create_platform_node(hs, node_id) == hs \cup {node_id}

\* Context::remove_platform_node: the cache afterwards and the removed node.
remove_platform_node(hs, node_id) ==
  [handles |-> hs \ {node_id},
   node |-> IF node_id \in hs THEN Some(node_id) ELSE None]

\* NSAccessibilityPostNotification(element, notification)
PostNotification(element, notification) ==
  [element |-> element, notification |-> notification, user_info |-> None]

\* NSAccessibilityPostNotificationWithUserInfo(element, notification, info)
PostNotificationWithUserInfo(element, notification, text, priority) ==
  [element |-> element, notification |-> notification,
   user_info |-> Some([announcement |-> text, priority |-> priority])]

PlatformNode(node_id) == <<"node", node_id>>
Window == <<"window">>

\* QueuedEvent::raise, arm Generic (lines 57-63).
raise_generic(event, hs, ps) ==
  [handles |-> get_or_create_platform_node(hs, event.node_id),
   posted |-> Append(ps, PostNotification(PlatformNode(event.node_id),
                                          event.notification))]

\* Variant: the destroyed notification is posted whether or not a platform
\* node was cached.
raise_node_destroyed_unchecked(event, hs, ps) ==
  [handles |-> remove_platform_node(hs, event.node_id).handles,
   posted |-> Append(ps, PostNotification(
                PlatformNode(event.node_id),
                NSAccessibilityUIElementDestroyedNotification))]

\* Variant: the platform node is looked up but stays in the cache.
raise_node_destroyed_keeping(event, hs, ps) ==
  [handles |-> hs,
   posted |-> IF remove_platform_node(hs, event.node_id).node # None
              THEN Append(ps, PostNotification(
                     PlatformNode(event.node_id),
                     NSAccessibilityUIElementDestroyedNotification))
              ELSE ps]

\* QueuedEvent::raise, arm NodeDestroyed (lines 64-73).
raise_node_destroyed(event, hs, ps) ==
  LET r == remove_platform_node(hs, event.node_id)
  IN [handles |-> r.handles,
      posted |-> IF r.node # None
                 THEN Append(ps, PostNotification(
                        PlatformNode(unwrap(r.node)),
                        NSAccessibilityUIElementDestroyedNotification))
                 ELSE ps]

\* Variant: a view outside any window is announced against all the same.
raise_announcement_windowless(event, hs, v, ps) ==
  IF v = "none" THEN [handles |-> hs, posted |-> ps]
  ELSE [handles |-> hs,
        posted |-> Append(ps, PostNotificationWithUserInfo(
                     Window,
                     NSAccessibilityAnnouncementRequestedNotification,
                     event.text, event.priority))]

\* QueuedEvent::raise, arm Announcement (lines 74-106).
raise_announcement(event, hs, v, ps) ==
  IF v = "none" THEN [handles |-> hs, posted |-> ps]
  ELSE IF v = "no_window" THEN [handles |-> hs, posted |-> ps]
  ELSE [handles |-> hs,
        posted |-> Append(ps, PostNotificationWithUserInfo(
                     Window,
                     NSAccessibilityAnnouncementRequestedNotification,
                     event.text, event.priority))]

\* QueuedEvent::raise: the handle cache and the posts after raising event
\* with handle cache hs, view v and earlier posts ps.
raise(event, hs, v, ps) ==
  CASE event.type = "Generic" -> raise_generic(event, hs, ps)
    [] event.type = "NodeDestroyed" -> raise_node_destroyed(event, hs, ps)
    [] event.type = "Announcement" -> raise_announcement(event, hs, v, ps)

\* ------------------------------------------------- lifecycle specification
Init ==
  /\ phase = "gen"
  /\ events = <<>>
  /\ queued = <<>>
  /\ pos = 1
  /\ handles = {}
  /\ view \in Views
  /\ posted = <<>>
  /\ log = <<>>
  /\ call = NoCall

\* One entry of log: the reaction, the id and the filter outcome of the node
\* it is about (None and FALSE when focus_moved has no new node) and the
\* descriptors the reaction yields on an empty generator.
Entry(kind, node, out) ==
  [kind |-> kind,
   node_id |-> IF node = None THEN None ELSE Some(unwrap(node).id),
   included |-> node # None /\ unwrap(node).included,
   out |-> out]

\* The generator accepts a reaction.
Generating == phase = "gen" /\ Len(log) < MaxCalls

\* Variant: a reaction resolves the platform nodes of its Generic descriptors
\* right away.
Reaction_resolving(evs, entry) ==
  /\ events' = evs
  /\ log' = Append(log, entry)
  /\ handles' = handles \cup {entry.out[i].node_id :
                                i \in {j \in DOMAIN entry.out : entry.out[j].type = "Generic"}}
  /\ UNCHANGED <<phase, queued, pos, view, posted, call>>

Reaction(evs, entry) ==
  /\ events' = evs
  /\ log' = Append(log, entry)
  /\ UNCHANGED <<phase, queued, pos, handles, view, posted, call>>

NodeAdded ==
  /\ Generating
  /\ \E node \in PassNodes :
    Reaction(node_added(events, node),
             Entry("node_added", Some(node), node_added(<<>>, node)))

NodeUpdated ==
  /\ Generating
  /\ \E old_node \in PassNodes, new_node \in PassNodes :
    /\ old_node.id = new_node.id
    /\ Reaction(node_updated(events, old_node, new_node),
                Entry("node_updated", Some(new_node),
                      node_updated(<<>>, old_node, new_node)))

FocusMoved ==
  /\ Generating
  /\ \E old_node \in {None} \cup {Some(n) : n \in PassOldFocus},
        new_node \in {None} \cup {Some(n) : n \in PassNodes} :
    Reaction(focus_moved(events, old_node, new_node),
             Entry("focus_moved", new_node,
                   focus_moved(<<>>, old_node, new_node)))

NodeRemoved ==
  /\ Generating
  /\ \E node \in PassNodes, current_state \in TreeStates :
    /\ node.id \notin current_state
    /\ Reaction(node_removed(events, node, current_state),
                Entry("node_removed", Some(node),
                      node_removed(<<>>, node, current_state)))

\* EventGenerator::into_result: the queue moves into a QueuedEvents.
IntoResult ==
  /\ phase = "gen"
  /\ phase' = "ready"
  /\ queued' = events
  /\ events' = <<>>
  /\ UNCHANGED <<pos, handles, view, posted, log, call>>

\* QueuedEvents::raise is entered; the generator and its reactions are past.
Raise ==
  /\ phase = "ready"
  /\ phase' = "raising"
  /\ pos' = 1
  /\ log' = <<>>
  /\ UNCHANGED <<events, queued, handles, view, posted, call>>

\* One iteration of the loop of QueuedEvents::raise.  Accessibility methods
\* of the view may be called while events are being raised, so each
\* iteration is a step of its own.
RaiseEvent ==
  /\ phase = "raising"
  /\ pos <= Len(queued)
  /\ LET r == raise(queued[pos], handles, view, posted)
     IN /\ handles' = r.handles
        /\ posted' = r.posted
  /\ pos' = pos + 1
  /\ UNCHANGED <<phase, events, queued, view, log, call>>

\* Variant: raise borrows the QueuedEvents, which can then be raised again.
RaiseReturn_borrowing ==
  /\ phase = "raising"
  /\ pos > Len(queued)
  /\ phase' = "ready"
  /\ UNCHANGED <<events, queued, pos, handles, view, posted, log, call>>

\* The loop of QueuedEvents::raise is over; the QueuedEvents is consumed.
RaiseReturn ==
  /\ phase = "raising"
  /\ pos > Len(queued)
  /\ phase' = "raised"
  /\ UNCHANGED <<events, queued, pos, handles, view, posted, log, call>>

\* EventGenerator::new for the next diff pass, on the same Context.
New ==
  /\ phase = "raised"
  /\ phase' = "gen"
  /\ events' = <<>>
  /\ queued' = <<>>
  /\ pos' = 1
  /\ posted' = <<>>
  /\ log' = <<>>
  /\ UNCHANGED <<handles, view, call>>

\* Environment: the view is dropped, or leaves or enters a window.
ViewChanged ==
  /\ \E v \in Views \ {view} : view' = v
  /\ UNCHANGED <<phase, events, queued, pos, handles, posted, log, call>>

Next ==
  \/ NodeAdded
  \/ NodeUpdated
  \/ FocusMoved
  \/ NodeRemoved
  \/ IntoResult
  \/ Raise
  \/ RaiseEvent
  \/ RaiseReturn
  \/ New
  \/ ViewChanged

Spec == Init /\ [][Next]_vars

\* ------------------------------------------- single-reaction specification
\* Queues a generator can hold when a reaction is invoked.
PriorQueues == {<<>>, <<NodeDestroyed(2), Announcement("b", NSAccessibilityPriorityMedium)>>}

InitReact ==
  /\ phase = "gen"
  /\ events \in PriorQueues
  /\ queued = <<>>
  /\ pos = 1
  /\ handles = {}
  /\ view = "window"
  /\ posted = <<>>
  /\ log = <<>>
  /\ call = NoCall

Applied(kind, old_node, new_node, evs) ==
  /\ events' = evs
  /\ call' = [kind |-> kind, old |-> old_node, new |-> new_node, before |-> events]
  /\ UNCHANGED <<phase, queued, pos, handles, view, posted, log>>

ReactNodeAdded ==
  /\ call = NoCall
  /\ \E node \in Nodes :
    Applied("node_added", None, Some(node), node_added(events, node))

ReactNodeUpdated ==
  /\ call = NoCall
  /\ \E old_node \in Nodes, new_node \in Nodes :
    /\ old_node.id = new_node.id
    /\ Applied("node_updated", Some(old_node), Some(new_node),
               node_updated(events, old_node, new_node))

ReactFocusMoved ==
  /\ call = NoCall
  /\ \E old_node \in {None} \cup {Some(n) : n \in Nodes},
        new_node \in {None} \cup {Some(n) : n \in Nodes} :
    Applied("focus_moved", old_node, new_node,
            focus_moved(events, old_node, new_node))

ReactNodeRemoved ==
  /\ call = NoCall
  /\ \E node \in Nodes, current_state \in TreeStates :
    /\ node.id \notin current_state
    /\ Applied("node_removed", Some(node), None,
               node_removed(events, node, current_state))

NextReact ==
  \/ ReactNodeAdded
  \/ ReactNodeUpdated
  \/ ReactFocusMoved
  \/ ReactNodeRemoved

SpecReact == InitReact /\ [][NextReact]_vars

\* ------------------------------------------------------------- properties
\* The descriptors of the current pass: the generator's queue until
\* into_result, the QueuedEvents' queue afterwards.
Queue == IF phase = "gen" THEN events ELSE queued

\* How many elements of seq satisfy Test.
Count(seq, Test(_)) == Cardinality({i \in DOMAIN seq : Test(seq[i])})

\* The descriptors of the logged reactions, concatenated in call order.
RECURSIVE Outs(_)
Outs(l) == IF l = <<>> THEN <<>> ELSE l[1].out \o Outs(Tail(l))

IsGeneric(event) == event.type = "Generic"
IsNodeDestroyed(event) == event.type = "NodeDestroyed"
IsAnnouncement(event) == event.type = "Announcement"

\* The posts made for Generic descriptors, each as the descriptor it delivers.
IsGenericPost(post) ==
  /\ post.element # Window
  /\ post.notification # NSAccessibilityUIElementDestroyedNotification
GenericPosts ==
  LET ps == SelectSeq(posted, IsGenericPost)
  IN [i \in 1..Len(ps) |-> Generic(ps[i].element[2], ps[i].notification)]

\* The descriptors QueuedEvents::raise has taken so far.
Taken == SubSeq(queued, 1, pos - 1)

\* The descriptor the loop of QueuedEvents::raise takes next, if any.
AtEvent == phase = "raising" /\ pos <= Len(queued)

PresentName(node) == node.name # None /\ node.name # Some("")

\* The generator, or the QueuedEvents made from it, has not been raised yet.
Unraised == phase \in {"gen", "ready"}

\* C1: every node_removed callback appends exactly one NodeDestroyed
\* descriptor carrying the removed node's id, whatever the node's filter
\* outcome and the tree state; for every id the queue holds as many
\* NodeDestroyed descriptors as there were node_removed callbacks for it.
C1_NodeRemovedQueuesDestroyed ==
  Unraised =>
    /\ \A i \in DOMAIN log :
         log[i].kind = "node_removed" =>
           log[i].out = <<NodeDestroyed(unwrap(log[i].node_id))>>
    /\ \A id \in Ids :
         LET Destroys(event) == event = NodeDestroyed(id)
             Removes(entry) == entry.kind = "node_removed" /\ entry.node_id = Some(id)
         IN Count(Queue, Destroys) = Count(log, Removes)
    /\ Count(Queue, IsNodeDestroyed) =
         Cardinality({i \in DOMAIN log : log[i].kind = "node_removed"})

\* C1 witness: an excluded node was removed and its NodeDestroyed is queued
\* behind the descriptor of an earlier reaction.
C1_Witness ==
  /\ phase = "gen"
  /\ Len(log) = 2
  /\ log[2].kind = "node_removed"
  /\ ~log[2].included
  /\ Len(events) = 2
  /\ events[2] = NodeDestroyed(unwrap(log[2].node_id))

\* C2: the queue is the concatenation, in call order, of the descriptors of
\* each reaction; into_result keeps it; raise takes the descriptors from the
\* front, so the posts for Generic descriptors come in queue order.
C2_QueueInCallOrder ==
  /\ Unraised => Queue = Outs(log)
  /\ phase \in {"raising", "raised"} =>
       /\ pos \in 1..(Len(queued) + 1)
       /\ GenericPosts = SelectSeq(Taken, IsGeneric)
  /\ phase = "raised" => pos = Len(queued) + 1

\* C2 witness: the descriptors of a node_updated (title-changed, then an
\* Announcement) and of a later focus_moved on another node were raised and
\* posted in that order.
C2_Witness ==
  /\ phase = "raised"
  /\ Len(queued) = 3
  /\ queued[1].type = "Generic"
  /\ queued[1].notification = NSAccessibilityTitleChangedNotification
  /\ queued[2].type = "Announcement"
  /\ queued[3].type = "Generic"
  /\ queued[3].notification = NSAccessibilityFocusedUIElementChangedNotification
  /\ queued[3].node_id # queued[1].node_id
  /\ Len(posted) = 3
  /\ posted[1].element = PlatformNode(queued[1].node_id)
  /\ posted[2].element = Window
  /\ posted[3].element = PlatformNode(queued[3].node_id)

\* C3: node_added for a node the filter excludes produces no descriptor.
C3_AddedExcludedSilent ==
  (call.kind = "node_added" /\ ~unwrap(call.new).included) =>
    events = call.before

\* C3 witness: an excluded, named, assertive node was added to a generator
\* that already held descriptors.
C3_Witness ==
  /\ call.kind = "node_added"
  /\ ~unwrap(call.new).included
  /\ unwrap(call.new).name = Some("a")
  /\ unwrap(call.new).live = "Assertive"
  /\ call.before # <<>>
  /\ events = call.before

\* C4: node_added for an included node with a non-empty name and live-region
\* assertive produces exactly one descriptor, Announcement(name, high).
C4_AddedAssertiveAnnounced ==
  (/\ call.kind = "node_added"
   /\ unwrap(call.new).included
   /\ PresentName(unwrap(call.new))
   /\ unwrap(call.new).live = "Assertive") =>
    events = call.before \o
      <<Announcement(unwrap(unwrap(call.new).name), NSAccessibilityPriorityHigh)>>

C4_Witness ==
  /\ call.kind = "node_added"
  /\ unwrap(call.new).included
  /\ unwrap(call.new).name = Some("b")
  /\ unwrap(call.new).live = "Assertive"
  /\ events = <<Announcement("b", NSAccessibilityPriorityHigh)>>

\* The update changes the value and leaves title, selection, name and
\* live-region as they were.
OnlyValueChanged ==
  /\ call.kind = "node_updated"
  /\ unwrap(call.old).value # unwrap(call.new).value
  /\ unwrap(call.old).title = unwrap(call.new).title
  /\ unwrap(call.old).selection = unwrap(call.new).selection
  /\ unwrap(call.old).name = unwrap(call.new).name
  /\ unwrap(call.old).live = unwrap(call.new).live

ValueChangedOnly ==
  events = call.before \o
    <<Generic(unwrap(call.new).id, NSAccessibilityValueChangedNotification)>>

\* C5 as stated: a node_updated that changes only the value produces exactly
\* one Generic(id, value-changed) descriptor and no others.
C5_AsStated == OnlyValueChanged => ValueChangedOnly

\* C5 as amended: a node_updated that changes only the value produces
\* exactly one Generic(id, value-changed) descriptor and no others, provided
\* the new view is included and either the old view was included too or the
\* node has no name or live-region off.
C5_OnlyValueChanged ==
  (/\ OnlyValueChanged
   /\ unwrap(call.new).included
   /\ \/ unwrap(call.old).included
      \/ unwrap(call.new).name = None
      \/ unwrap(call.new).live = "Off") =>
    ValueChangedOnly

\* C5 witness: a named, polite live region that was and stays included, with
\* text-range support, changed its value only.
C5_Witness ==
  /\ OnlyValueChanged
  /\ unwrap(call.new).included
  /\ unwrap(call.old).included
  /\ unwrap(call.new).name = Some("a")
  /\ unwrap(call.new).live = "Polite"
  /\ unwrap(call.new).supports_text_ranges
  /\ unwrap(call.old).supports_text_ranges
  /\ ValueChangedOnly

\* C6: a node_updated whose old view was excluded and whose new view is
\* included, with a non-empty name and live-region polite, ends with
\* Announcement(name, medium), the only Announcement it produces, also when
\* name and live-region are the same in both views.
C6_NewlyIncludedAnnounced ==
  (/\ call.kind = "node_updated"
   /\ ~unwrap(call.old).included
   /\ unwrap(call.new).included
   /\ PresentName(unwrap(call.new))
   /\ unwrap(call.new).live = "Polite") =>
    LET produced == SubSeq(events, Len(call.before) + 1, Len(events))
    IN /\ events = call.before \o produced
       /\ produced # <<>>
       /\ produced[Len(produced)] =
            Announcement(unwrap(unwrap(call.new).name), NSAccessibilityPriorityMedium)
       /\ Count(produced, IsAnnouncement) = 1

\* C6 witness: name, live-region and every other attribute are the same in
\* both views, and only the announcement was produced.
C6_Witness ==
  /\ call.kind = "node_updated"
  /\ ~unwrap(call.old).included
  /\ unwrap(call.new) = [unwrap(call.old) EXCEPT !.included = TRUE]
  /\ unwrap(call.new).name = Some("a")
  /\ unwrap(call.new).live = "Polite"
  /\ events = call.before \o <<Announcement("a", NSAccessibilityPriorityMedium)>>

\* The next descriptor is a NodeDestroyed for an id without a platform node.
AtUnregisteredDestroyed ==
  /\ AtEvent
  /\ queued[pos].type = "NodeDestroyed"
  /\ queued[pos].node_id \notin handles

\* C7: raising a NodeDestroyed for an id without a platform node posts
\* nothing, leaves the handle cache alone and does not end the pass: the loop
\* moves on to the next descriptor, and a pass only ends with every
\* descriptor taken and every Generic descriptor posted.
C7_UnregisteredDestroyedSkipped ==
  /\ [][AtUnregisteredDestroyed =>
          /\ posted' = posted
          /\ handles' = handles
          /\ phase' = "raising"
          /\ queued' = queued
          /\ pos' = pos + 1 \/ (pos' = pos /\ view' # view)]_vars
  /\ [](phase = "raised" =>
          /\ pos = Len(queued) + 1
          /\ Count(posted, IsGenericPost) = Count(queued, IsGeneric))

\* C7 witness: the pass raised NodeDestroyed first, posted nothing for it, and
\* went on to post the Generic descriptor behind it.
C7_Witness ==
  /\ phase = "raised"
  /\ Len(queued) = 2
  /\ queued[1].type = "NodeDestroyed"
  /\ queued[2].type = "Generic"
  /\ posted = <<PostNotification(PlatformNode(queued[2].node_id), queued[2].notification)>>

\* C8: focus_moved appends Generic(new_node.id, focus-changed) when new_node
\* is present and included and nothing otherwise; the result does not depend
\* on old_node.
C8_FocusGainOnly ==
  call.kind = "focus_moved" =>
    events = call.before \o
      (IF call.new # None /\ unwrap(call.new).included
       THEN <<Generic(unwrap(call.new).id,
                      NSAccessibilityFocusedUIElementChangedNotification)>>
       ELSE <<>>)

\* C8 witness: focus left an included node for an excluded one and nothing
\* was queued.
C8_Witness ==
  /\ call.kind = "focus_moved"
  /\ call.old # None
  /\ unwrap(call.old).included
  /\ call.new # None
  /\ ~unwrap(call.new).included
  /\ unwrap(call.new).id # unwrap(call.old).id
  /\ events = call.before

\* C9: node_updated with an excluded new view produces no descriptor.
C9_UpdatedExcludedSilent ==
  (call.kind = "node_updated" /\ ~unwrap(call.new).included) =>
    events = call.before

\* C9 witness: the old view was included and title, value, selection, name
\* and live-region all differ.
C9_Witness ==
  /\ call.kind = "node_updated"
  /\ ~unwrap(call.new).included
  /\ unwrap(call.old).included
  /\ unwrap(call.old).title # unwrap(call.new).title
  /\ unwrap(call.old).value # unwrap(call.new).value
  /\ unwrap(call.old).supports_text_ranges
  /\ unwrap(call.new).supports_text_ranges
  /\ unwrap(call.old).selection # unwrap(call.new).selection
  /\ unwrap(call.old).name # unwrap(call.new).name
  /\ unwrap(call.new).name = Some("a")
  /\ unwrap(call.old).live # unwrap(call.new).live
  /\ unwrap(call.new).live = "Assertive"
  /\ events = call.before

\* The next descriptor cannot be delivered.
AtUndeliverable ==
  /\ AtEvent
  /\ \/ queued[pos].type = "Announcement" /\ view \in {"none", "no_window"}
     \/ queued[pos].type = "NodeDestroyed" /\ queued[pos].node_id \notin handles

\* C10: a descriptor that cannot be delivered is skipped without a post and
\* without ending the pass; the loop takes the descriptors one by one, in
\* order, and returns only after the last one.
C10_DeliveryNeverAborts ==
  /\ [][AtUndeliverable =>
          /\ posted' = posted
          /\ phase' = "raising"
          /\ pos' = pos + 1 \/ (pos' = pos /\ view' # view)]_vars
  /\ [][phase = "raising" =>
          /\ queued' = queued
          /\ pos' \in {pos, pos + 1}
          /\ pos' = pos + 1 => Len(posted') \in {Len(posted), Len(posted) + 1}
          /\ phase' = "raised" => pos = Len(queued) + 1]_vars

\* C10 witness: an Announcement met a view without a window, was skipped, and
\* the Generic descriptor behind it was posted.
C10_Witness ==
  /\ phase = "raised"
  /\ Len(queued) = 2
  /\ queued[1].type = "Announcement"
  /\ queued[2].type = "Generic"
  /\ view = "no_window"
  /\ posted = <<PostNotification(PlatformNode(queued[2].node_id), queued[2].notification)>>

\* C11: the lifecycle is single-use.  A generator starts with an empty queue;
\* once into_result has run, the batch is fixed and no reaction touches it;
\* raise is entered only on a QueuedEvents that has delivered nothing, takes
\* each descriptor once, front to back, posting at most once for each, and
\* once it has returned nothing more is delivered from that batch.
C11_SingleUseLifecycle ==
  /\ []((phase = "gen" /\ log = <<>>) => events = <<>>)
  /\ [](phase = "ready" => (pos = 1 /\ posted = <<>>))
  /\ [](phase \in {"raising", "raised"} => Len(posted) <= pos - 1)
  /\ [][(phase # "gen" /\ phase' # "gen") =>
          (queued' = queued /\ events' = events)]_vars
  /\ [][(phase # "gen" /\ phase' = "gen") =>
          (phase = "raised" /\ events' = <<>> /\ log' = <<>>)]_vars
  /\ [][(phase' = "raising" /\ phase # "raising") =>
          (phase = "ready" /\ pos' = 1 /\ posted' = <<>>)]_vars
  /\ [][phase = "raising" =>
          /\ pos' \in {pos, pos + 1}
          /\ phase' \in {"raising", "raised"}]_vars
  /\ [][(phase = "raised" /\ phase' # "gen") =>
          (phase' = "raised" /\ pos' = pos /\ posted' = posted /\ handles' = handles)]_vars

\* C11 witness: a second batch was raised on a context that kept the platform
\* node of id 2 from an earlier batch; its one descriptor was posted once.
C11_Witness ==
  /\ phase = "raised"
  /\ Len(queued) = 1
  /\ queued[1].type = "Generic"
  /\ queued[1].node_id = 1
  /\ handles = {1, 2}
  /\ posted = <<PostNotification(PlatformNode(1), queued[1].notification)>>

\* s is a prefix of t.
IsPrefix(s, t) == Len(s) <= Len(t) /\ SubSeq(t, 1, Len(s)) = s

\* C12: a reaction only appends: the queue before the call is an unchanged
\* prefix of the queue after it.
C12_ReactionsOnlyAppend ==
  call # NoCall => IsPrefix(call.before, events)

\* C12 witness: a node_updated on a generator that already held two
\* descriptors added four more behind them.
C12_Witness ==
  /\ call.kind = "node_updated"
  /\ Len(call.before) = 2
  /\ Len(events) = 6
  /\ SubSeq(events, 1, 2) = call.before

\* C13: generation and delivery are disjoint in time.  While a generator is
\* filled and when into_result runs, nothing is posted and the handle cache
\* stays as it is; a post, or a change of the handle cache, happens only in
\* a step of raise.
C13_GenerationPostsNothing ==
  /\ [](Unraised => posted = <<>>)
  /\ [][Unraised => (posted' = posted /\ handles' = handles)]_vars
  /\ [][(handles' # handles \/ Len(posted') > Len(posted)) =>
          (phase = "raising" /\ phase' = "raising" /\ pos' = pos + 1)]_vars

\* C13 witness: a Generic descriptor for a node without a platform node sits
\* in a finished batch, and nothing has been posted or resolved for it.
C13_Witness ==
  /\ phase = "ready"
  /\ Len(queued) = 2
  /\ queued[1].type = "Generic"
  /\ queued[1].node_id \notin handles
  /\ queued[2].type = "NodeDestroyed"
  /\ queued[2].node_id \in handles
  /\ posted = <<>>

\* The descriptors the reaction recorded in call added to the queue.
Produced == SubSeq(events, Len(call.before) + 1, Len(events))

\* The node_added reaction recorded in call was for an included node.
AddedIncluded == call.kind = "node_added" /\ unwrap(call.new).included

\* C14: node_added on an included node appends a live-region announcement
\* if and only if the name is non-empty and live-region is not off; an
\* absent or empty name, or live-region off, gives no descriptor.
C14_AddedAnnouncedIffNonEmptyAndLive ==
  AddedIncluded =>
    IF PresentName(unwrap(call.new)) /\ unwrap(call.new).live # "Off"
    THEN Produced = <<live_region_announcement(unwrap(call.new))>>
    ELSE Produced = <<>>

\* The node_updated reaction recorded in call had an included new view.
UpdatedIncluded == call.kind = "node_updated" /\ unwrap(call.new).included

\* C15: node_updated with an included new view appends an Announcement
\* exactly when the new name is non-empty, the new live-region is not off,
\* and the name changed, the live-region changed or the old view was
\* excluded; so none is appended when the old view was included and name and
\* live-region are unchanged, nor when live-region is off or the name absent.
C15_UpdatedAnnouncedIffDue ==
  UpdatedIncluded =>
    LET old_node == unwrap(call.old)
        new_node == unwrap(call.new)
    IN Count(Produced, IsAnnouncement) =
         (IF /\ PresentName(new_node)
             /\ new_node.live # "Off"
             /\ \/ new_node.name # old_node.name
                \/ new_node.live # old_node.live
                \/ ~old_node.included
          THEN 1 ELSE 0)

\* The Generic descriptors of node_updated for node id.
Title(id) == Generic(id, NSAccessibilityTitleChangedNotification)
Value(id) == Generic(id, NSAccessibilityValueChangedNotification)
Selection(id) == Generic(id, NSAccessibilitySelectedTextChangedNotification)

\* C16: node_updated with an included new view appends at most four
\* descriptors, at most one of each kind, in the order title-changed,
\* value-changed, selection-changed, Announcement; title-changed is there
\* iff the titles differ and value-changed iff the values differ, and each
\* Generic carries the new node's id.
C16_UpdateOrderAndKinds ==
  UpdatedIncluded =>
    LET old_node == unwrap(call.old)
        new_node == unwrap(call.new)
        id == new_node.id
        t == IF old_node.title # new_node.title THEN <<Title(id)>> ELSE <<>>
        v == IF old_node.value # new_node.value THEN <<Value(id)>> ELSE <<>>
    IN /\ IsPrefix(call.before, events)
       /\ Len(Produced) <= 4
       /\ \E s \in {<<>>, <<Selection(id)>>} :
            \E n \in {0, 1} :
              /\ Len(Produced) = Len(t) + Len(v) + Len(s) + n
              /\ SubSeq(Produced, 1, Len(t) + Len(v) + Len(s)) = t \o v \o s
              /\ n = 1 => Produced[Len(Produced)].type = "Announcement"

\* C16 witness: all four descriptors were appended.
C16_Witness ==
  /\ UpdatedIncluded
  /\ Len(Produced) = 4
  /\ Produced[1] = Title(unwrap(call.new).id)
  /\ Produced[2] = Value(unwrap(call.new).id)
  /\ Produced[3] = Selection(unwrap(call.new).id)
  /\ Produced[4].type = "Announcement"

\* C17: node_updated with an included new view appends
\* Generic(id, selection-changed) if and only if both views support text
\* ranges and their raw text selections differ.
C17_SelectionChangedIffBothSupport ==
  UpdatedIncluded =>
    LET old_node == unwrap(call.old)
        new_node == unwrap(call.new)
        IsSelection(event) == event = Selection(new_node.id)
        IsSelectionKind(event) ==
          /\ event.type = "Generic"
          /\ event.notification = NSAccessibilitySelectedTextChangedNotification
    IN /\ Count(Produced, IsSelectionKind) = Count(Produced, IsSelection)
       /\ Count(Produced, IsSelection) =
            (IF /\ old_node.supports_text_ranges
                /\ new_node.supports_text_ranges
                /\ old_node.selection # new_node.selection
             THEN 1 ELSE 0)

\* C17 witness: the node gained text-range support and its selection
\* differs, yet no selection-changed descriptor was appended.
C17_Witness ==
  /\ UpdatedIncluded
  /\ ~unwrap(call.old).supports_text_ranges
  /\ unwrap(call.new).supports_text_ranges
  /\ unwrap(call.old).selection # unwrap(call.new).selection
  /\ unwrap(call.old).included
  /\ Produced = <<>>

\* The reaction recorded in call is one of the two that announce.
Announcing == call.kind \in {"node_added", "node_updated"}

\* C18: every Announcement a node_added or node_updated produces has the
\* node's name at the time of the call as text and priority high if the
\* node's live-region is assertive and medium otherwise; none is produced for
\* a node whose live-region is off.
C18_AnnouncementTextAndPriority ==
  Announcing =>
    \A i \in DOMAIN Produced :
      Produced[i].type = "Announcement" =>
        /\ unwrap(call.new).live # "Off"
        /\ unwrap(call.new).name = Some(Produced[i].text)
        /\ Produced[i].priority =
             (IF unwrap(call.new).live = "Assertive"
              THEN NSAccessibilityPriorityHigh
              ELSE NSAccessibilityPriorityMedium)

\* C18 witness: a polite node renamed from "a" to "b" was announced with its
\* new name at priority medium.
C18_Witness ==
  /\ call.kind = "node_updated"
  /\ unwrap(call.old).name = Some("a")
  /\ unwrap(call.new).name = Some("b")
  /\ unwrap(call.old).live = "Assertive"
  /\ unwrap(call.new).live = "Polite"
  /\ Produced = <<Announcement("b", NSAccessibilityPriorityMedium)>>

\* C19: the unwrap of the name in live_region_announcement never fails: no
\* descriptor is ever built from an absent name, since both call sites test
\* the name first.
C19_NameUnwrapNeverFails ==
  \A i \in DOMAIN events :
    events[i].type = "Announcement" => events[i].text # Panic

\* C19 witness: an included node without a name went from live-region off to
\* assertive and was changed otherwise, and no announcement was built.
C19_Witness ==
  /\ UpdatedIncluded
  /\ unwrap(call.new).name = None
  /\ unwrap(call.new).live = "Assertive"
  /\ unwrap(call.old).live = "Off"
  /\ unwrap(call.old).name = Some("a")
  /\ Produced = <<Title(unwrap(call.new).id)>>

\* The post that reports the platform node of node_id destroyed.
DestroyedPost(node_id) ==
  PostNotification(PlatformNode(node_id),
                   NSAccessibilityUIElementDestroyedNotification)

\* C20: in a step of raise, a Generic descriptor is posted exactly once and
\* leaves a platform node cached for its id, creating it if there was none;
\* a NodeDestroyed descriptor leaves no platform node for its id and posts
\* the destroyed notification iff there was one just before.  So a destroyed
\* notification always takes a cached platform node away with it, and a
\* Generic raised after a NodeDestroyed for the same id caches one again.
C20_HandlesFollowDelivery ==
  [][(AtEvent /\ pos' = pos + 1) =>
       LET event == queued[pos]
       IN /\ event.type = "Generic" =>
               /\ posted' = Append(posted,
                                   PostNotification(PlatformNode(event.node_id),
                                                    event.notification))
               /\ event.node_id \in handles'
               /\ handles' \ {event.node_id} = handles \ {event.node_id}
          /\ event.type = "NodeDestroyed" =>
               /\ event.node_id \notin handles'
               /\ handles' \ {event.node_id} = handles \ {event.node_id}
               /\ posted' = (IF event.node_id \in handles
                             THEN Append(posted, DestroyedPost(event.node_id))
                             ELSE posted)
          /\ event.type = "Announcement" => handles' = handles]_vars

\* C20 witness: node 1 got its platform node in an earlier batch; this batch
\* destroyed it, posting the destroyed notification, and the Generic behind
\* it created a platform node for id 1 again.
C20_Witness ==
  /\ phase = "raised"
  /\ Len(queued) = 2
  /\ queued[1] = NodeDestroyed(1)
  /\ queued[2].type = "Generic"
  /\ queued[2].node_id = 1
  /\ posted = <<DestroyedPost(1), PostNotification(PlatformNode(1), queued[2].notification)>>
  /\ 1 \in handles

====
